---- MODULE Spec2Model ----
(***************************************************************************)
(* Model of the open-circuit detector: the connectivity graph              *)
(* (graph/circuit_graph.py, CircuitGraph) built from one subcircuit        *)
(* template, and the detection engine (analyzer/open_detector.py,          *)
(* OpenCircuitDetector) that runs over it.                                 *)
(*                                                                         *)
(* Text is modelled as a sequence of chunks (strings).  A node name is a   *)
(* sequence of one-character chunks, so that str.lower() is computed       *)
(* character by character; literal text of a message is one chunk.         *)
(***************************************************************************)
EXTENDS Integers, Sequences, FiniteSets, TLC

VARIABLES pc, graph, twin, issues, ret, n_added, kept, netlist, parser
vars == <<pc, graph, twin, issues, ret, n_added, kept, netlist, parser>>

(***************************************************************************)
(* Bounds of the model.                                                    *)
(***************************************************************************)
\* Largest number of elements a template holds.
MaxElems == 2

(***************************************************************************)
(* Text.                                                                   *)
(***************************************************************************)
UpperLetters ==
  <<"A","B","C","D","E","F","G","H","I","J","K","L","M",
    "N","O","P","Q","R","S","T","U","V","W","X","Y","Z">>

LowerLetters ==
  <<"a","b","c","d","e","f","g","h","i","j","k","l","m",
    "n","o","p","q","r","s","t","u","v","w","x","y","z">>

Digits == <<"0","1","2","3","4","5","6","7","8","9">>

\* The characters in code-point order, as sorted() compares them.
CodePoints == Digits \o UpperLetters \o <<"_">> \o LowerLetters

IndexOf(seq, c) == CHOOSE i \in 1..Len(seq) : seq[i] = c

\* Each upper-case letter's lower-case form, and the reverse.
ToLower == [c \in {UpperLetters[i] : i \in 1..26} |-> LowerLetters[IndexOf(UpperLetters, c)]]

ToUpper == [c \in {LowerLetters[i] : i \in 1..26} |-> UpperLetters[IndexOf(LowerLetters, c)]]

\* The place of each character in code-point order.
CodePoint == [c \in {CodePoints[i] : i \in 1..Len(CodePoints)} |-> IndexOf(CodePoints, c)]

\* str.lower() on one character.
LowerChar(c) == IF c \in DOMAIN ToLower THEN ToLower[c] ELSE c

\* str.lower().
Lower(s) == [i \in 1..Len(s) |-> LowerChar(s[i])]

\* str.swapcase() on one character: the other spelling of the same letter.
SwapChar(c) ==
  IF c \in DOMAIN ToLower THEN ToLower[c]
  ELSE IF c \in DOMAIN ToUpper THEN ToUpper[c]
  ELSE c

SwapCase(s) == [i \in 1..Len(s) |-> SwapChar(s[i])]

\* s < t in the order sorted() uses on strings.
RECURSIVE StrLess(_, _)
StrLess(s, t) ==
  IF t = <<>> THEN FALSE
  ELSE IF s = <<>> THEN TRUE
  ELSE IF Head(s) = Head(t) THEN StrLess(Tail(s), Tail(t))
  ELSE CodePoint[Head(s)] < CodePoint[Head(t)]

\* sorted(S) for a set of strings.
RECURSIVE Sorted(_)
Sorted(S) ==
  IF S = {} THEN <<>>
  ELSE LET m == CHOOSE x \in S : \A y \in S \ {x} : StrLess(x, y)
       IN  <<m>> \o Sorted(S \ {m})

\* The order in which a for loop walks a set: fixed for a given set.
RECURSIVE Order(_)
Order(S) ==
  IF S = {} THEN <<>>
  ELSE LET x == CHOOSE x \in S : TRUE
       IN  <<x>> \o Order(S \ {x})

\* sep.join(parts).
RECURSIVE Join(_, _)
Join(parts, sep) ==
  IF parts = <<>> THEN <<>>
  ELSE IF Len(parts) = 1 THEN parts[1]
  ELSE parts[1] \o sep \o Join(Tail(parts), sep)

\* An integer formatted by an f-string.
RECURSIVE IntStr(_)
IntStr(n) ==
  IF n < 10 THEN <<Digits[n + 1]>>
  ELSE IntStr(n \div 10) \o <<Digits[(n % 10) + 1]>>

Range(seq) == {seq[i] : i \in 1..Len(seq)}

(***************************************************************************)
(* Elements and templates: the inputs.                                     *)
(***************************************************************************)
RESISTOR == "R"
CAPACITOR == "C"
COUPLING_CAPACITOR == "CC"

ElementTypes == {RESISTOR, CAPACITOR, COUPLING_CAPACITOR}

\* Node spellings a template may use.
RawNodes == { <<"A">>, <<"b">>, <<"V","S","S">> }

ElemNames == { <<"e1">>, <<"e2">> }

Element(name, node1, node2, element_type) ==
  [name |-> name, node1 |-> node1, node2 |-> node2, element_type |-> element_type]

Elements ==
  { Element(nm, n1, n2, t) : nm \in ElemNames, n1 \in RawNodes, n2 \in RawNodes, t \in ElementTypes }

\* Port lists a template may declare: none, or a signal port and a ground port.
PortLists == { <<>>, << <<"A">>, <<"V","S","S">> >> }

\* The same element with every node name in its other spelling.
SwapElement(e) == [e EXCEPT !.node1 = SwapCase(e.node1), !.node2 = SwapCase(e.node2)]

\* A whole template, as the parser closes it.
Subcircuit(name, ports, elements) ==
  [ name |-> name, ports |-> ports, elements |-> elements,
    internal_nodes |->
      UNION { {elements[i].node1, elements[i].node2} : i \in 1..Len(elements) } \ Range(ports) ]

\* The pairs of nodes an element of a whole template joins.
TemplateNodePairs ==
  { << <<"A">>, <<"b">> >>, << <<"b">>, <<"V","S","S">> >>, << <<"A">>, <<"V","S","S">> >> }

\* The name of the i-th element of a whole template: e1, e2, ...
ElementName(i) == <<"e">> \o IntStr(i)

\* The element lists of k elements.
Bodies(k) ==
  { [i \in 1..k |-> Element(ElementName(i), f[i][1][1], f[i][1][2], f[i][2])] :
      f \in [1..k -> TemplateNodePairs \X ElementTypes] }

\* The whole templates handed to a builder.
Subcircuits ==
  { Subcircuit(<<"sub">>, ports, body) :
      ports \in PortLists, body \in UNION { Bodies(k) : k \in 0..MaxElems } }

\* The same template with every node name in its other spelling.
SwapSubcircuit(subckt) ==
  Subcircuit(subckt.name,
             [i \in 1..Len(subckt.ports) |-> SwapCase(subckt.ports[i])],
             [i \in 1..Len(subckt.elements) |-> SwapElement(subckt.elements[i])])

SubcircuitInstance(instance_name, subcircuit_type, connections) ==
  [ instance_name |-> instance_name, subcircuit_type |-> subcircuit_type,
    connections |-> connections ]

\* subcircuits is the dict of templates in insertion order.
TopLevelNetlist(subcircuits, instances, top_level_elements) ==
  [ subcircuits |-> subcircuits, instances |-> instances,
    top_level_elements |-> top_level_elements ]

\* Connection lists an instantiation may carry: none, or two nodes.
ConnectionLists == { <<>>, << <<"N">>, <<"p">> >> }

\* The first instantiation of a netlist: of the template or of a name no
\* template has.
FirstInstances ==
  { SubcircuitInstance(<<"x","0">>, t, c) : t \in { <<"sub">>, <<"ghost">> }, c \in ConnectionLists }

SecondInstances ==
  { SubcircuitInstance(<<"x","1">>, <<"sub">>, c) : c \in ConnectionLists }

InstanceLists ==
  { <<>> } \cup { <<i>> : i \in FirstInstances }
    \cup { <<i, j>> : i \in FirstInstances, j \in SecondInstances }

\* Top-level element lists: none, a coupling capacitor from N to a connection
\* node, or that capacitor and a bias resistor from N to ground.
TopLevelLists ==
  { <<>>,
    << Element(<<"cc1">>, <<"N">>, <<"p">>, COUPLING_CAPACITOR) >>,
    << Element(<<"cc1">>, <<"N">>, <<"p">>, COUPLING_CAPACITOR),
       Element(<<"r_bias">>, <<"N">>, <<"0">>, RESISTOR) >> }

\* The netlists handed to build_from_netlist.
Netlists ==
  { TopLevelNetlist(subs, insts, tops) :
      subs \in { <<>> } \cup { <<t>> : t \in Subcircuits },
      insts \in InstanceLists,
      tops \in TopLevelLists }

(***************************************************************************)
(* CircuitGraph.                                                           *)
(***************************************************************************)
ground_nodes == { <<"0">>, <<"g","n","d">>, <<"v","s","s">>, <<"g","r","o","u","n","d">> }

\* A defaultdict(set) is a function on its keys.
EmptyAdj == [k \in {} |-> {}]

\* A slip: the reference node is registered before any element is read.
NewGraphWithReference ==
  [ resistive_adj  |-> EmptyAdj,
    capacitive_adj |-> EmptyAdj,
    all_nodes      |-> { <<"0">> },
    port_nodes     |-> {},
    elements       |-> <<>> ]

\* CircuitGraph.__init__
NewGraph ==
  [ resistive_adj  |-> EmptyAdj,
    capacitive_adj |-> EmptyAdj,
    all_nodes      |-> {},
    port_nodes     |-> {},
    elements       |-> <<>> ]

\* Reading adj[k] of a defaultdict(set): the value read.
Get(adj, k) == IF k \in DOMAIN adj THEN adj[k] ELSE {}

\* Reading adj[k] for every k of K: a missing key is inserted with an empty set.
Touch(adj, K) == [k \in (DOMAIN adj) \cup K |-> Get(adj, k)]

\* adj[a].add(b)
AddTo(adj, a, b) == [k \in (DOMAIN adj) \cup {a} |-> IF k = a THEN Get(adj, k) \cup {b} ELSE adj[k]]

\* A slip: the edge is recorded in one direction only.
AddEdgeOneWay(adj, node1, node2) == AddTo(adj, node1, node2)

\* adj[node1].add(node2); adj[node2].add(node1)
AddEdge(adj, node1, node2) == AddTo(AddTo(adj, node1, node2), node2, node1)

\* elements[name] = element on a dict, which keeps the position of a key it already holds.
DictSet(d, e) ==
  IF \E i \in 1..Len(d) : d[i].name = e.name
  THEN [i \in 1..Len(d) |-> IF d[i].name = e.name THEN e ELSE d[i]]
  ELSE Append(d, e)

\* The first statement of build_from_subcircuit.
set_ports(g, ports) == [g EXCEPT !.port_nodes = {Lower(p) : p \in Range(ports)}]

\* A slip: the second node name enters the graph as it is spelled.
add_element_as_spelled(g, element) ==
  LET node1 == Lower(element.node1)
      node2 == element.node2
  IN  [ g EXCEPT
          !.all_nodes = @ \cup {node1, node2},
          !.elements = DictSet(@, element),
          !.resistive_adj =
             IF element.element_type = RESISTOR THEN AddEdge(@, node1, node2) ELSE @,
          !.capacitive_adj =
             IF element.element_type = CAPACITOR THEN AddEdge(@, node1, node2) ELSE @ ]

\* A slip: the edge of a capacitor is added to the resistive adjacency.
add_element_capacitor_as_resistor(g, element) ==
  LET node1 == Lower(element.node1)
      node2 == Lower(element.node2)
  IN  [ g EXCEPT
          !.all_nodes = @ \cup {node1, node2},
          !.elements = DictSet(@, element),
          !.resistive_adj =
             IF element.element_type \in {RESISTOR, CAPACITOR}
             THEN AddEdge(@, node1, node2) ELSE @ ]

\* One turn of the loop of build_from_subcircuit.
add_element(g, element) ==
  LET node1 == Lower(element.node1)
      node2 == Lower(element.node2)
  IN  [ g EXCEPT
          !.all_nodes = @ \cup {node1, node2},
          !.elements = DictSet(@, element),
          !.resistive_adj =
             IF element.element_type = RESISTOR THEN AddEdge(@, node1, node2) ELSE @,
          !.capacitive_adj =
             IF element.element_type = RESISTOR THEN @
             ELSE IF element.element_type = CAPACITOR THEN AddEdge(@, node1, node2)
             ELSE @ ]

\* The loop of build_from_subcircuit over the elements still to take.
RECURSIVE add_elements(_, _)
add_elements(g, elements) ==
  IF elements = <<>> THEN g
  ELSE add_elements(add_element(g, Head(elements)), Tail(elements))

\* build_from_subcircuit(subckt)
build_from_subcircuit(g, subckt) ==
  add_elements(set_ports(g, subckt.ports), subckt.elements)

(***************************************************************************)
(* SpiceParser.  A line is the sequence of its whitespace-separated        *)
(* tokens, a token the sequence of its characters.                         *)
(***************************************************************************)
\* Largest number of lines an input holds.
MaxLines == 4

\* \w of the regular expressions.
WordChars == { CodePoints[i] : i \in 1..Len(CodePoints) }

IsWord(chars) == \A i \in 1..Len(chars) : chars[i] \in WordChars

\* The lines an input is made of: two .subckt headers, .ends, a resistor, a
\* capacitor, an instantiation and a continuation.
InputLines ==
  { << <<".","s","u","b","c","k","t">>, <<"t","1">>, <<"A">>, <<"V","S","S">> >>,
    << <<".","S","U","B","C","K","T">>, <<"t","2">>, <<"A">> >>,
    << <<".","e","n","d","s">> >>,
    << <<"r","1">>, <<"A">>, <<"b">>, <<"1","0","0">> >>,
    << <<"c","1">>, <<"b">>, <<"V","S","S">>, <<"1","f">> >>,
    << <<"x","0">>, <<"N">>, <<"p">>, <<"t","1">> >>,
    << <<"+">>, <<"V","S","S">> >> }

RECURSIVE InputsOfLen(_)
InputsOfLen(k) ==
  IF k = 0 THEN { <<>> }
  ELSE { Append(ls, l) : ls \in InputsOfLen(k - 1), l \in InputLines }

\* The inputs handed to parse_lines and parse_lines_complete.
Inputs == UNION { InputsOfLen(k) : k \in 0..MaxLines }

\* curren_subckt is None.
NoName == <<>>

\* SpiceParser.__init__, with the input and the position in it.
NewParser ==
  [ subcircuits |-> <<>>, curren_subckt |-> NoName, elements |-> <<>>, ports |-> <<>>,
    top_level_elements |-> <<>>, instances |-> <<>>,
    warnings |-> 0, raised |-> "none",
    method |-> "none", lines |-> <<>>, joined_lines |-> <<>>, line_num |-> 1 ]

\* COMMENT_PATTERN
is_comment(line) == Head(line[1]) = "*"

\* CONTINUATION_PATTERN: a plus sign, then something.
is_continuation(line) == Head(line[1]) = "+" /\ (Len(line[1]) > 1 \/ Len(line) > 1)

\* Group 1 of CONTINUATION_PATTERN, stripped.
continuation(line) ==
  (IF Len(line[1]) > 1 THEN << Tail(line[1]) >> ELSE <<>>) \o Tail(line)

\* The loop of _join_continuation_lines: result and current_line.
RECURSIVE join_loop(_, _, _)
join_loop(lines, result, current_line) ==
  IF lines = <<>>
  THEN IF current_line # <<>> THEN Append(result, current_line) ELSE result
  ELSE LET line == Head(lines)
       IN  IF line = <<>> \/ is_comment(line)
           THEN join_loop(Tail(lines), result, current_line)
           ELSE IF is_continuation(line)
           THEN join_loop(Tail(lines), result, current_line \o continuation(line))
           ELSE join_loop(Tail(lines),
                          IF current_line # <<>> THEN Append(result, current_line) ELSE result,
                          line)

\* _join_continuation_lines(lines)
join_continuation_lines(lines) == join_loop(lines, <<>>, <<>>)

\* SUBCKT_START_PATTERN: .subckt, a name, and at least one port.
is_subckt_start(line) ==
  Len(line) >= 3 /\ Lower(line[1]) = <<".","s","u","b","c","k","t">>

\* SUBCKT_END_PATTERN: .ends and nothing else.
is_subckt_end(line) == Len(line) = 1 /\ Lower(line[1]) = <<".","e","n","d","s">>

\* RESISTOR_PATTERN
is_resistor(line) ==
  Len(line) >= 4 /\ LowerChar(Head(line[1])) = "r" /\ IsWord(Tail(line[1]))

\* CAPACITOR_PATTERN
is_capacitor(line) ==
  Len(line) >= 4 /\ LowerChar(Head(line[1])) = "c" /\ IsWord(Tail(line[1]))

\* COUPLING_CAP_PATTERN
is_coupling_cap(line) ==
  /\ Len(line) >= 4 /\ Len(line[1]) >= 2
  /\ Lower(SubSeq(line[1], 1, 2)) = <<"c","c">>
  /\ IsWord(Tail(Tail(line[1])))

\* SUBCKT_INSTANCE_PATTERN
is_instance(line) == Len(line) >= 2 /\ LowerChar(Head(line[1])) = "x"

\* _start_subcircuit(match): what was open is dropped.
start_subcircuit(p, line) ==
  [ p EXCEPT !.ports = SubSeq(line, 3, Len(line)),
             !.curren_subckt = line[2],
             !.elements = <<>> ]

\* A slip: the subcircuit is forgotten without being saved.
end_subcircuit_unsaved(p) ==
  IF p.curren_subckt = NoName THEN [p EXCEPT !.raised = "SpiceParserError"]
  ELSE [ p EXCEPT !.curren_subckt = NoName, !.elements = <<>>, !.ports = <<>> ]

\* _end_subcircuit()
end_subcircuit(p) ==
  IF p.curren_subckt = NoName THEN [p EXCEPT !.raised = "SpiceParserError"]
  ELSE [ p EXCEPT
           !.subcircuits = DictSet(@, Subcircuit(p.curren_subckt, p.ports, p.elements)),
           !.curren_subckt = NoName,
           !.elements = <<>>,
           !.ports = <<>> ]

\* The element of a line the element patterns match.
element_of(line, type) == Element(line[1], line[2], line[3], type)

\* _parse_element(line): resistor, then coupling capacitor, then capacitor.
parse_element(p, line) ==
  IF is_resistor(line) THEN [p EXCEPT !.elements = Append(@, element_of(line, RESISTOR))]
  ELSE IF is_coupling_cap(line)
  THEN [p EXCEPT !.elements = Append(@, element_of(line, COUPLING_CAPACITOR))]
  ELSE IF is_capacitor(line)
  THEN [p EXCEPT !.elements = Append(@, element_of(line, CAPACITOR))]
  ELSE [p EXCEPT !.raised = "SpiceParserError"]

\* _parse_instance(match)
parse_instance(p, line) ==
  LET rest == Tail(line)
  IN  IF Len(rest) < 2 THEN p
      ELSE [p EXCEPT !.instances =
              Append(@, SubcircuitInstance(Tail(line[1]), rest[Len(rest)],
                                           SubSeq(rest, 1, Len(rest) - 1)))]

\* _parse_top_level_line(line): instance, coupling capacitor, capacitor,
\* resistor; any other line is ignored.
parse_top_level_line(p, line) ==
  IF is_instance(line) THEN parse_instance(p, line)
  ELSE IF is_coupling_cap(line)
  THEN [p EXCEPT !.top_level_elements = Append(@, element_of(line, COUPLING_CAPACITOR))]
  ELSE IF is_capacitor(line)
  THEN [p EXCEPT !.top_level_elements = Append(@, element_of(line, CAPACITOR))]
  ELSE IF is_resistor(line)
  THEN [p EXCEPT !.top_level_elements = Append(@, element_of(line, RESISTOR))]
  ELSE p

\* _parse_line(line): elements outside a subcircuit are ignored.
parse_line(p, line) ==
  IF line = <<>> THEN p
  ELSE IF is_subckt_start(line) THEN start_subcircuit(p, line)
  ELSE IF is_subckt_end(line) THEN end_subcircuit(p)
  ELSE IF p.curren_subckt # NoName THEN parse_element(p, line)
  ELSE p

\* _parse_line_complete(line)
parse_line_complete(p, line) ==
  IF line = <<>> THEN p
  ELSE IF is_subckt_start(line) THEN start_subcircuit(p, line)
  ELSE IF is_subckt_end(line) THEN end_subcircuit(p)
  ELSE IF p.curren_subckt # NoName THEN parse_element(p, line)
  ELSE parse_top_level_line(p, line)

\* A slip: the warning is issued and the subcircuit left as it is.
warn_unterminated(p) ==
  IF p.curren_subckt # NoName THEN [p EXCEPT !.warnings = @ + 1] ELSE p

\* The end of parse_lines and parse_lines_complete: a subcircuit still open
\* is closed with a warning.
auto_terminate(p) ==
  IF p.curren_subckt # NoName
  THEN end_subcircuit([p EXCEPT !.warnings = @ + 1])
  ELSE p

\* The namespacing of a name by the instance it belongs to: x0_b.
compose(instance_name, name) == instance_name \o <<"_">> \o name

\* A slip: a node that is no port keeps the name it has in the template,
\* whatever the instance.
flat_node_unprefixed(instance, subckt, node) ==
  LET n == Lower(node)
      ports == [i \in 1..Len(subckt.ports) |-> Lower(subckt.ports[i])]
  IN  IF n \in ground_nodes THEN n
      ELSE IF n \in Range(ports)
           THEN Lower(instance.connections[CHOOSE i \in 1..Len(ports) : ports[i] = n])
           ELSE n

\* A slip: the port map is consulted first, so a ground node that is a port
\* becomes the connection bound to it.
flat_node_port_first(instance, subckt, node) ==
  LET n == Lower(node)
      ports == [i \in 1..Len(subckt.ports) |-> Lower(subckt.ports[i])]
  IN  IF n \in Range(ports)
      THEN Lower(instance.connections[CHOOSE i \in 1..Len(ports) : ports[i] = n])
      ELSE IF n \in ground_nodes THEN n
           ELSE Lower(compose(instance.instance_name, n))

\* The flattened identity of a node of a template inside one instance: a
\* ground node is itself, a port is the connection bound to it, any other
\* node is namespaced by the instance.
flat_node(instance, subckt, node) ==
  LET n == Lower(node)
      ports == [i \in 1..Len(subckt.ports) |-> Lower(subckt.ports[i])]
  IN  IF n \in ground_nodes THEN n
      ELSE IF n \in Range(ports)
           THEN Lower(instance.connections[CHOOSE i \in 1..Len(ports) : ports[i] = n])
           ELSE Lower(compose(instance.instance_name, n))

\* A slip: the element is renamed but its nodes are left as the template
\* spells them.
flat_element_unbound(instance, subckt, e) ==
  Element(compose(instance.instance_name, e.name),
          Lower(e.node1), Lower(e.node2), e.element_type)

\* An element of a template re-emitted for one instance.
flat_element(instance, subckt, e) ==
  Element(compose(instance.instance_name, e.name),
          flat_node(instance, subckt, e.node1),
          flat_node(instance, subckt, e.node2),
          e.element_type)

\* An element enters the flat graph: a resistor is a resistive edge, a
\* capacitor of either kind a capacitive edge.
add_flat_element(g, element) ==
  LET node1 == Lower(element.node1)
      node2 == Lower(element.node2)
  IN  [ g EXCEPT
          !.all_nodes = @ \cup {node1, node2},
          !.elements = DictSet(@, element),
          !.resistive_adj =
             IF element.element_type = RESISTOR THEN AddEdge(@, node1, node2) ELSE @,
          !.capacitive_adj =
             IF element.element_type \in {CAPACITOR, COUPLING_CAPACITOR}
             THEN AddEdge(@, node1, node2) ELSE @ ]

RECURSIVE add_flat_elements(_, _)
add_flat_elements(g, elements) ==
  IF elements = <<>> THEN g
  ELSE add_flat_elements(add_flat_element(g, Head(elements)), Tail(elements))

NoError == [kind |-> "none"]

\* The templates of a netlist that carry the name.
named(nl, name) == SelectSeq(nl.subcircuits, LAMBDA t : t.name = name)

\* A slip: the connections are zipped with the ports, so surplus
\* connections are dropped without a word; only missing ones are an error.
instance_error_zip(nl, instance) ==
  IF named(nl, instance.subcircuit_type) = <<>>
  THEN [ kind |-> "unknown_subcircuit", instance |-> instance.instance_name,
         subcircuit |-> instance.subcircuit_type ]
  ELSE IF Len(instance.connections) < Len(named(nl, instance.subcircuit_type)[1].ports)
  THEN [ kind |-> "port_count_mismatch", instance |-> instance.instance_name,
         subcircuit |-> instance.subcircuit_type ]
  ELSE NoError

\* The structural check of one instantiation: its template exists and has
\* as many ports as the instantiation has connections.
instance_error(nl, instance) ==
  IF named(nl, instance.subcircuit_type) = <<>>
  THEN [ kind |-> "unknown_subcircuit", instance |-> instance.instance_name,
         subcircuit |-> instance.subcircuit_type ]
  ELSE IF Len(instance.connections) # Len(named(nl, instance.subcircuit_type)[1].ports)
  THEN [ kind |-> "port_count_mismatch", instance |-> instance.instance_name,
         subcircuit |-> instance.subcircuit_type ]
  ELSE NoError

\* The instantiations are flattened in order; the first one that fails the
\* check aborts the build.
RECURSIVE flatten_instances(_, _, _)
flatten_instances(g, nl, todo) ==
  IF todo = <<>> THEN [graph |-> g, error |-> NoError]
  ELSE LET instance == Head(todo)
           err == instance_error(nl, instance)
           subckt == named(nl, instance.subcircuit_type)[1]
       IN  IF err # NoError THEN [graph |-> g, error |-> err]
           ELSE flatten_instances(
                  add_flat_elements(g, [i \in 1..Len(subckt.elements) |->
                                          flat_element(instance, subckt, subckt.elements[i])]),
                  nl, Tail(todo))

\* build_from_netlist(netlist): every instance is flattened, then the
\* top-level elements are added under their own node names.
build_from_netlist(g, nl) ==
  LET r == flatten_instances(g, nl, nl.instances)
  IN  IF r.error # NoError THEN r
      ELSE [graph |-> add_flat_elements(r.graph, nl.top_level_elements), error |-> NoError]

\* The DFS of get_resistive_connected_component: the set visited.
RECURSIVE dfs(_, _, _)
dfs(adj, stack, visited) ==
  IF stack = <<>> THEN visited
  ELSE LET node == stack[Len(stack)]
           rest == SubSeq(stack, 1, Len(stack) - 1)
       IN  IF node \in visited THEN dfs(adj, rest, visited)
           ELSE dfs(adj,
                    rest \o Order(Get(adj, node) \ (visited \cup {node})),
                    visited \cup {node})

\* A slip: the DFS follows capacitors as well as resistors.
component_through_any_edge(g, start_node) ==
  dfs([ k \in (DOMAIN g.resistive_adj) \cup (DOMAIN g.capacitive_adj) |->
          Get(g.resistive_adj, k) \cup Get(g.capacitive_adj, k) ],
      << Lower(start_node) >>, {})

\* get_resistive_connected_component(start_node): the set returned.
get_resistive_connected_component(g, start_node) ==
  dfs(g.resistive_adj, << Lower(start_node) >>, {})

\* The loop of get_all_connected_components over the nodes still to visit.
RECURSIVE components_loop(_, _, _, _)
components_loop(g, todo, visited, components) ==
  IF todo = <<>> THEN components
  ELSE IF Head(todo) \in visited
       THEN components_loop(g, Tail(todo), visited, components)
       ELSE LET component == get_resistive_connected_component(g, Head(todo))
            IN  components_loop(g, Tail(todo), visited \cup component,
                                Append(components, component))

\* get_all_connected_components(): the list returned.
get_all_connected_components(g) ==
  components_loop(g, Order(g.all_nodes), {}, <<>>)

\* The graph after get_all_connected_components(): the DFS reads
\* resistive_adj[node] for every node it visits.
after_components(g) ==
  [g EXCEPT !.resistive_adj = Touch(@, UNION Range(get_all_connected_components(g)))]

\* A slip: only the node and its resistive neighbours are looked at.
has_ground_neighbour(g, node) ==
  LET near == {Lower(node)} \cup Get(g.resistive_adj, Lower(node))
  IN  [ val |-> near \cap ground_nodes # {},
        graph |-> [g EXCEPT !.resistive_adj = Touch(@, {Lower(node)})] ]

\* has_ground_connection(node): the answer, and the graph after the search
\* has read resistive_adj at every node it visited.
has_ground_connection(g, node) ==
  LET component == get_resistive_connected_component(g, node)
  IN  [ val |-> component \cap ground_nodes # {},
        graph |-> [g EXCEPT !.resistive_adj = Touch(@, component)] ]

\* A slip: the adjacency is a plain dict, and the subscript of a key it does
\* not have raises KeyError.
get_node_degree_plain_dict(g, node, include_capacitors) ==
  LET node_lower == Lower(node)
  IN  IF \/ node_lower \notin DOMAIN g.resistive_adj
         \/ include_capacitors /\ node_lower \notin DOMAIN g.capacitive_adj
      THEN [raised |-> "KeyError", val |-> 0, graph |-> g]
      ELSE [ raised |-> "none",
             val |-> Cardinality(g.resistive_adj[node_lower])
                       + (IF include_capacitors
                          THEN Cardinality(g.capacitive_adj[node_lower]) ELSE 0),
             graph |-> g ]

\* get_node_degree(node, include_capacitors): the degree, and the graph
\* after the subscripts have been read.
get_node_degree(g, node, include_capacitors) ==
  LET node_lower == Lower(node)
  IN  [ raised |-> "none",
        val |-> Cardinality(Get(g.resistive_adj, node_lower))
                  + (IF include_capacitors
                     THEN Cardinality(Get(g.capacitive_adj, node_lower)) ELSE 0),
        graph |-> [g EXCEPT
                     !.resistive_adj = Touch(@, {node_lower}),
                     !.capacitive_adj =
                        IF include_capacitors THEN Touch(@, {node_lower}) ELSE @] ]

\* get_resistive_neighbors(node)
get_resistive_neighbors(g, node) == Get(g.resistive_adj, Lower(node))

\* get_resistive_degree(node)
get_resistive_degree(g, node) == Cardinality(Get(g.resistive_adj, Lower(node)))

\* get_capacitive_degree(node)
get_capacitive_degree(g, node) == Cardinality(Get(g.capacitive_adj, Lower(node)))

(***************************************************************************)
(* OpenCircuitDetector.                                                    *)
(***************************************************************************)
FLOATING_NODE == "floating_node"
ISOLATED_COMPONENT == "isolated_component"
FLOATING_PORT == "floating_port"
CAPACITOR_ONLY == "capacitor_only"
DC_FLOATING_NODE == "dc_floating_node"

\* The longest list of node names an isolated component's label spells out.
LabelLimit == 5

OpenCircuit(node, open_type, description, affected_elements, severity) ==
  [ node |-> node, open_type |-> open_type, description |-> description,
    affected_elements |-> affected_elements, severity |-> severity ]

\* The names of a list of elements.
Names(elems) == [i \in 1..Len(elems) |-> elems[i].name]

\* A slip: the endpoints are compared as the netlist spells them.
get_connected_elements_as_spelled(g, node) ==
  LET touches(e) == e.node1 = node \/ e.node2 = node
  IN  Names(SelectSeq(g.elements, touches))

\* _get_connected_elements(node)
get_connected_elements(g, node) ==
  LET touches(e) == Lower(e.node1) = node \/ Lower(e.node2) = node
  IN  Names(SelectSeq(g.elements, touches))

\* _get_elements_in_component(component)
get_elements_in_component(g, component) ==
  LET touches(e) == Lower(e.node1) \in component \/ Lower(e.node2) \in component
  IN  Names(SelectSeq(g.elements, touches))

r_deg(g, n) == Cardinality(Get(g.resistive_adj, n))

c_deg(g, n) == Cardinality(Get(g.capacitive_adj, n))

\* Both degrees of every node of K are read from the defaultdicts.
touch_both(g, K) ==
  [g EXCEPT !.resistive_adj = Touch(@, K), !.capacitive_adj = Touch(@, K)]

\* The detector: the graph it holds and its list self.issues.
Detector(g, found) == [graph |-> g, issues |-> found]

\* A slip: ports are not skipped.
is_floating_node_or_port(g, node) ==
  /\ node \notin ground_nodes
  /\ r_deg(g, node) = 0 /\ c_deg(g, node) = 0

\* The test of _detect_floating_nodes on one node.
is_floating_node(g, node) ==
  /\ node \notin ground_nodes
  /\ node \notin g.port_nodes
  /\ r_deg(g, node) = 0 /\ c_deg(g, node) = 0

floating_node_issue(node) ==
  OpenCircuit(node, FLOATING_NODE,
              <<"Node '">> \o node \o <<"' has no connections">>,
              <<>>, "critical")

\* _detect_floating_nodes
detect_floating_nodes(d) ==
  LET g == d.graph
      test(n) == is_floating_node(g, n)
      hits == SelectSeq(Order(g.all_nodes), test)
  IN  Detector(touch_both(g, (g.all_nodes \ ground_nodes) \ g.port_nodes),
               d.issues \o [i \in 1..Len(hits) |-> floating_node_issue(hits[i])])

\* The label of an isolated component.
component_label(component) ==
  LET names == Sorted(component)
      shown == SubSeq(names, 1, IF Len(names) < LabelLimit THEN Len(names) ELSE LabelLimit)
      nodes_str == Join(shown, <<", ">>)
  IN  IF Cardinality(component) > LabelLimit
      THEN nodes_str \o <<"... (+">> \o IntStr(Cardinality(component) - LabelLimit) \o <<" more)">>
      ELSE nodes_str

\* A slip: nodes_with_connections decides in place of nodes_with_resistive.
is_isolated_with_any_connection(g, component) ==
  /\ component \cap ground_nodes = {}
  /\ Cardinality(component) > 0
  /\ \E n \in component : r_deg(g, n) > 0 \/ c_deg(g, n) > 0

\* A slip: every component without ground is reported, whatever the degree
\* of its nodes.
is_isolated_without_ground(g, component) ==
  /\ component \cap ground_nodes = {}
  /\ Cardinality(component) > 0

\* The test of _detect_isolated_components on one component.
is_isolated_component(g, component) ==
  /\ component \cap ground_nodes = {}
  /\ Cardinality(component) > 0
  /\ \E n \in component : r_deg(g, n) > 0

isolated_component_issue(g, component) ==
  OpenCircuit(component_label(component), ISOLATED_COMPONENT,
              <<"Isolated component with ">> \o IntStr(Cardinality(component))
                \o <<" nodes has no ground path">>,
              get_elements_in_component(g, component), "critical")

\* _detect_isolated_components.  The DFS reads resistive_adj[n] for every node
\* it visits; in a component without ground, capacitive_adj[n] is read only
\* when resistive_adj[n] is empty.
detect_isolated_components(d) ==
  LET g == d.graph
      components == get_all_connected_components(g)
      test(c) == is_isolated_component(g, c)
      hits == SelectSeq(components, test)
      ungrounded == UNION { c \in Range(components) : c \cap ground_nodes = {} }
  IN  Detector([g EXCEPT !.resistive_adj = Touch(@, UNION Range(components)),
                         !.capacitive_adj = Touch(@, { n \in ungrounded : r_deg(g, n) = 0 })],
               d.issues \o [i \in 1..Len(hits) |-> isolated_component_issue(g, hits[i])])

\* A slip: a ground port is not skipped.
is_floating_port_or_ground(g, port) ==
  r_deg(g, port) = 0 /\ c_deg(g, port) = 0

\* The test of _detect_floating_ports on one port.
is_floating_port(g, port) ==
  /\ port \notin ground_nodes
  /\ r_deg(g, port) = 0 /\ c_deg(g, port) = 0

floating_port_issue(port) ==
  OpenCircuit(port, FLOATING_PORT,
              <<"Port '">> \o port \o <<"' is declared but not used inside the subcircuit">>,
              <<>>, "warning")

\* _detect_floating_ports
detect_floating_ports(d) ==
  LET g == d.graph
      test(p) == is_floating_port(g, p)
      hits == SelectSeq(Order(g.port_nodes), test)
  IN  Detector(touch_both(g, g.port_nodes \ ground_nodes),
               d.issues \o [i \in 1..Len(hits) |-> floating_port_issue(hits[i])])

\* A slip: ports are not skipped.
is_capacitor_only_or_port(g, node) ==
  /\ node \notin ground_nodes
  /\ r_deg(g, node) = 0 /\ c_deg(g, node) > 0

\* The test of _detect_capacitor_only_nodes on one node.
is_capacitor_only(g, node) ==
  /\ node \notin ground_nodes
  /\ node \notin g.port_nodes
  /\ r_deg(g, node) = 0 /\ c_deg(g, node) > 0

capacitor_only_issue(g, node) ==
  OpenCircuit(node, CAPACITOR_ONLY,
              <<"Node '">> \o node \o <<"' is connected only via capacitors (no DC path)">>,
              get_connected_elements(g, node), "warning")

\* _detect_capacitor_only_nodes
detect_capacitor_only_nodes(d) ==
  LET g == d.graph
      test(n) == is_capacitor_only(g, n)
      hits == SelectSeq(Order(g.all_nodes), test)
  IN  Detector(touch_both(g, (g.all_nodes \ ground_nodes) \ g.port_nodes),
               d.issues \o [i \in 1..Len(hits) |-> capacitor_only_issue(g, hits[i])])

\* The BFS of _has_resistive_path_to_ground.
RECURSIVE bfs(_, _, _)
bfs(g, queue, visited) ==
  IF queue = <<>> THEN FALSE
  ELSE LET current == Head(queue)
           fresh == get_resistive_neighbors(g, current) \ visited
       IN  IF current \in ground_nodes THEN TRUE
           ELSE bfs(g, Tail(queue) \o Order(fresh), visited \cup fresh)

\* A slip: the BFS explores capacitive neighbors as well.
RECURSIVE bfs_any_edge(_, _, _)
bfs_any_edge(g, queue, visited) ==
  IF queue = <<>> THEN FALSE
  ELSE LET current == Head(queue)
           fresh == (Get(g.resistive_adj, current) \cup Get(g.capacitive_adj, current)) \ visited
       IN  IF current \in ground_nodes THEN TRUE
           ELSE bfs_any_edge(g, Tail(queue) \o Order(fresh), visited \cup fresh)

has_any_path_to_ground(g, start_node) ==
  bfs_any_edge(g, << Lower(start_node) >>, { Lower(start_node) })

\* _has_resistive_path_to_ground(start_node)
has_resistive_path_to_ground(g, start_node) ==
  bfs(g, << Lower(start_node) >>, { Lower(start_node) })

\* A slip: the resistive degree decides in place of the search for ground.
is_dc_floating_by_degree(g, node) ==
  /\ node \notin ground_nodes
  /\ get_capacitive_degree(g, node) # 0
  /\ get_resistive_degree(g, node) = 0

\* The test of _detect_dc_floating_nodes on one node.
is_dc_floating(g, node) ==
  /\ node \notin ground_nodes
  /\ get_capacitive_degree(g, node) # 0
  /\ ~ has_resistive_path_to_ground(g, node)

dc_floating_issue(g, node) ==
  OpenCircuit(node, DC_FLOATING_NODE,
              <<"Node '">> \o node \o <<"' has ">>
                \o IntStr(get_capacitive_degree(g, node))
                \o <<" capacitive connections but no DC path to ground (r_degree=">>
                \o IntStr(get_resistive_degree(g, node)) \o <<")">>,
              get_connected_elements(g, node), "error")

\* _detect_dc_floating_nodes
detect_dc_floating_nodes(d) ==
  LET g == d.graph
      test(n) == is_dc_floating(g, n)
      hits == SelectSeq(Order(g.all_nodes), test)
  IN  Detector(g, d.issues \o [i \in 1..Len(hits) |-> dc_floating_issue(g, hits[i])])

\* A slip: self.issues is not reset, the rules append to the list of the run before.
detect_all_without_reset(d) ==
  detect_capacitor_only_nodes(
    detect_floating_ports(
      detect_isolated_components(
        detect_floating_nodes(d))))

\* A slip: the port rule is called before the component rule.
detect_all_ports_early(d) ==
  detect_capacitor_only_nodes(
    detect_isolated_components(
      detect_floating_ports(
        detect_floating_nodes(Detector(d.graph, <<>>)))))

\* detect_all: self.issues is reset, then the four rules run in order.
detect_all(d) ==
  detect_capacitor_only_nodes(
    detect_floating_ports(
      detect_isolated_components(
        detect_floating_nodes(Detector(d.graph, <<>>)))))

\* A slip: the capacitor-only rule is not skipped in the flattened run.
detect_all_flattened_with_capacitor_only(d) ==
  detect_dc_floating_nodes(
    detect_capacitor_only_nodes(
      detect_floating_ports(
        detect_isolated_components(
          detect_floating_nodes(Detector(d.graph, <<>>))))))

\* detect_all_flattened: self.issues is reset, then the four rules run in order.
detect_all_flattened(d) ==
  detect_dc_floating_nodes(
    detect_floating_ports(
      detect_isolated_components(
        detect_floating_nodes(Detector(d.graph, <<>>)))))

(***************************************************************************)
(* The state machine.                                                      *)
(*   pc = "new"    a CircuitGraph and its detector have been constructed   *)
(*   pc = "build"  build_from_subcircuit has taken the elements so far;    *)
(*                 its loop ends when the template holds no more           *)
(*   pc = "built"  build_from_subcircuit has returned                      *)
(*   pc = "flat"   build_from_netlist has returned                         *)
(*   pc = "error"  build_from_netlist has raised: the analysis is over     *)
(*   pc = "run"    a method of the built graph or of its detector has run  *)
(*   pc = "parse"  the parser is in its loop over the joined lines         *)
(*   pc = "parsed" the parser has returned                                 *)
(*   pc = "parse_error"  the parser has raised SpiceParserError            *)
(*   pc = "kept"   the caller holds the list the last run returned         *)
(***************************************************************************)
NoRet == [op |-> "none"]

\* No list of findings has been kept by the caller.
NoKept == [op |-> "none"]

\* TopLevelNetlist(subcircuits={}, instances=[], top_level_elements=[])
EmptyNetlist == [subcircuits |-> <<>>, instances |-> <<>>, top_level_elements |-> <<>>]

Init ==
  /\ pc = "new"
  /\ graph = NewGraph
  /\ twin = NewGraph
  /\ issues = <<>>
  /\ ret = NoRet
  /\ n_added = 0
  /\ kept = NoKept
  /\ netlist = EmptyNetlist
  /\ parser = NewParser

\* build_from_subcircuit is entered: the ports are recorded.  The twin graph
\* is built from the same template with every node spelled in the other case.
BuildStart ==
  /\ pc = "new"
  /\ \E ports \in PortLists :
       /\ graph' = set_ports(graph, ports)
       /\ twin' = set_ports(twin, [i \in 1..Len(ports) |-> SwapCase(ports[i])])
  /\ pc' = "build"
  /\ UNCHANGED <<issues, ret, n_added, kept, netlist, parser>>

\* The loop of build_from_subcircuit takes the next element of the template.
AddElement ==
  /\ pc = "build"
  /\ n_added < MaxElems
  /\ \E e \in Elements :
       /\ graph' = add_element(graph, e)
       /\ twin' = add_element(twin, SwapElement(e))
  /\ n_added' = n_added + 1
  /\ UNCHANGED <<pc, issues, ret, kept, netlist, parser>>

\* build_from_subcircuit(subckt), from its first statement to its return.
BuildFromSubcircuit ==
  /\ pc = "new"
  /\ \E subckt \in Subcircuits :
       /\ graph' = build_from_subcircuit(graph, subckt)
       /\ twin' = build_from_subcircuit(twin, SwapSubcircuit(subckt))
       /\ n_added' = Len(subckt.elements)
  /\ pc' = "built"
  /\ UNCHANGED <<issues, ret, kept, netlist, parser>>

\* graph.build_from_netlist(netlist): the flat graph is built, or the build
\* aborts and the analysis of this netlist ends.
BuildFromNetlist ==
  /\ pc = "new"
  /\ \E nl \in Netlists :
       LET r == build_from_netlist(graph, nl)
       IN  /\ netlist' = nl
           /\ graph' = r.graph
           /\ ret' = [op |-> "build_from_netlist", error |-> r.error]
           /\ pc' = IF r.error = NoError THEN "flat" ELSE "error"
  /\ UNCHANGED <<twin, issues, n_added, kept, parser>>

Built == pc \in {"build", "built", "flat", "run", "kept"}

ParseMethods == {"parse_lines", "parse_lines_complete"}

\* parser.parse_lines(lines) or parser.parse_lines_complete(lines) is
\* called: the continuation lines are joined.
ParseStart ==
  /\ pc = "new"
  /\ \E lines \in Inputs : \E method \in ParseMethods :
       parser' = [ parser EXCEPT !.method = method, !.lines = lines,
                                 !.joined_lines = join_continuation_lines(lines),
                                 !.line_num = 1 ]
  /\ pc' = "parse"
  /\ UNCHANGED <<graph, twin, issues, ret, n_added, kept, netlist>>

\* One turn of the loop over the joined lines; an exception ends the call.
ParseLine ==
  /\ pc = "parse"
  /\ parser.line_num <= Len(parser.joined_lines)
  /\ LET line == parser.joined_lines[parser.line_num]
         p == IF parser.method = "parse_lines" THEN parse_line(parser, line)
              ELSE parse_line_complete(parser, line)
     IN  IF p.raised # "none"
         THEN parser' = p /\ pc' = "parse_error"
         ELSE parser' = [p EXCEPT !.line_num = @ + 1] /\ pc' = "parse"
  /\ UNCHANGED <<graph, twin, issues, ret, n_added, kept, netlist>>

\* The loop is over: a subcircuit still open is closed, and the call returns.
ParseReturn ==
  /\ pc = "parse"
  /\ parser.line_num > Len(parser.joined_lines)
  /\ LET p == auto_terminate(parser)
     IN  /\ parser' = p
         /\ ret' = [ op |-> parser.method,
                     val |-> IF parser.method = "parse_lines" THEN p.subcircuits
                             ELSE TopLevelNetlist(p.subcircuits, p.instances,
                                                  p.top_level_elements) ]
         /\ pc' = IF p.raised # "none" THEN "parse_error" ELSE "parsed"
  /\ UNCHANGED <<graph, twin, issues, n_added, kept, netlist>>

DetectionOps == {"detect_all", "detect_all_flattened"}

\* issues = detector.detect_all(): the caller keeps the list a run returned.
KeepIssues ==
  /\ pc = "run"
  /\ ret.op \in DetectionOps
  /\ kept' = [op |-> ret.op, issues |-> issues]
  /\ pc' = "kept"
  /\ UNCHANGED <<graph, twin, issues, ret, n_added, netlist, parser>>

\* detector.detect_all()
DetectAll ==
  /\ Built
  /\ LET d == detect_all(Detector(graph, issues))
     IN  issues' = d.issues /\ graph' = d.graph
  /\ ret' = [op |-> "detect_all"]
  /\ pc' = "run"
  /\ UNCHANGED <<twin, n_added, kept, netlist, parser>>

\* detector.detect_all_flattened()
DetectAllFlattened ==
  /\ Built
  /\ LET d == detect_all_flattened(Detector(graph, issues))
     IN  issues' = d.issues /\ graph' = d.graph
  /\ ret' = [op |-> "detect_all_flattened"]
  /\ pc' = "run"
  /\ UNCHANGED <<twin, n_added, kept, netlist, parser>>

\* detector._has_resistive_path_to_ground(node)
HasResistivePathToGround ==
  /\ Built
  /\ \E node \in RawNodes :
       ret' = [op |-> "has_resistive_path_to_ground", node |-> node,
               val |-> has_resistive_path_to_ground(graph, node)]
  /\ pc' = "run"
  /\ UNCHANGED <<graph, twin, issues, n_added, kept, netlist, parser>>

\* graph.get_node_degree(node, include_capacitors)
GetNodeDegree ==
  /\ Built
  /\ \E node \in RawNodes : \E include_capacitors \in BOOLEAN :
       LET r == get_node_degree(graph, node, include_capacitors)
       IN  /\ ret' = [op |-> "get_node_degree", node |-> node,
                      include_capacitors |-> include_capacitors,
                      raised |-> r.raised, val |-> r.val]
           /\ graph' = r.graph
  /\ pc' = "run"
  /\ UNCHANGED <<twin, issues, n_added, kept, netlist, parser>>

\* graph.get_resistive_neighbors(node)
GetResistiveNeighbors ==
  /\ Built
  /\ \E node \in RawNodes :
       ret' = [op |-> "get_resistive_neighbors", node |-> node,
               val |-> get_resistive_neighbors(graph, node)]
  /\ pc' = "run"
  /\ UNCHANGED <<graph, twin, issues, n_added, kept, netlist, parser>>

\* graph.has_ground_connection(node)
HasGroundConnection ==
  /\ Built
  /\ \E node \in RawNodes :
       LET r == has_ground_connection(graph, node)
       IN  /\ ret' = [op |-> "has_ground_connection", node |-> node, val |-> r.val]
           /\ graph' = r.graph
  /\ pc' = "run"
  /\ UNCHANGED <<twin, issues, n_added, kept, netlist, parser>>

\* graph.get_all_connected_components()
GetAllConnectedComponents ==
  /\ Built
  /\ ret' = [op |-> "get_all_connected_components",
             val |-> get_all_connected_components(graph)]
  /\ graph' = after_components(graph)
  /\ pc' = "run"
  /\ UNCHANGED <<twin, issues, n_added, kept, netlist, parser>>

\* Build, then detection runs.
Next ==
  \/ BuildStart
  \/ AddElement
  \/ DetectAll
  \/ DetectAllFlattened

Spec == Init /\ [][Next]_vars

\* Build, then queries of the graph.
NextQuery ==
  \/ BuildStart
  \/ AddElement
  \/ HasResistivePathToGround
  \/ GetAllConnectedComponents

SpecQuery == Init /\ [][NextQuery]_vars

\* A whole template is built, then detection runs again and again while the
\* caller holds on to a list an earlier run returned.
NextRerun ==
  \/ BuildFromSubcircuit
  \/ DetectAll
  \/ DetectAllFlattened
  \/ KeepIssues

SpecRerun == Init /\ [][NextRerun]_vars

\* A template is built, then single nodes are looked up.
NextLookup ==
  \/ BuildFromSubcircuit
  \/ GetNodeDegree
  \/ GetResistiveNeighbors
  \/ HasGroundConnection
  \/ HasResistivePathToGround

SpecLookup == Init /\ [][NextLookup]_vars

\* A template is built, then ground is searched for from single nodes, by
\* the graph and by the detector, and the standard rules run.
NextGround ==
  \/ BuildFromSubcircuit
  \/ HasGroundConnection
  \/ HasResistivePathToGround
  \/ DetectAll

SpecGround == Init /\ [][NextGround]_vars

\* An input is parsed.
NextParse ==
  \/ ParseStart
  \/ ParseLine
  \/ ParseReturn

SpecParse == Init /\ [][NextParse]_vars

\* A netlist is flattened, then detection runs.
NextFlat ==
  \/ BuildFromNetlist
  \/ DetectAll
  \/ DetectAllFlattened

SpecFlat == Init /\ [][NextFlat]_vars

(***************************************************************************)
(* Vocabulary of the properties.                                           *)
(***************************************************************************)
\* Every node reachable from the set S along edges of adj alone.
RECURSIVE Reach(_, _)
Reach(adj, S) ==
  LET next == S \cup UNION { Get(adj, x) : x \in S }
  IN  IF next = S THEN S ELSE Reach(adj, next)

\* Both relations together: a path may mix resistors and capacitors.
AnyEdge(g) ==
  [ k \in (DOMAIN g.resistive_adj) \cup (DOMAIN g.capacitive_adj) |->
      Get(g.resistive_adj, k) \cup Get(g.capacitive_adj, k) ]

\* A ground node is n itself or is reachable from n through resistors alone.
ResistivelyGrounded(g, n) == Reach(g.resistive_adj, {n}) \cap ground_nodes # {}

\* The number of findings of one kind that name one node (or one label).
Count(kind, label) ==
  Cardinality({ i \in 1..Len(issues) :
                  issues[i].open_type = kind /\ issues[i].node = label })

OfKind(kind) == { issues[i] : i \in { j \in 1..Len(issues) : issues[j].open_type = kind } }

\* Every node name a property may be asked about.
NodeNames ==
  graph.all_nodes \cup graph.port_nodes \cup { Lower(n) : n \in RawNodes }
    \cup { issues[i].node : i \in 1..Len(issues) }

StandardRan == ret.op = "detect_all"

FlattenedRan == ret.op = "detect_all_flattened"

(***************************************************************************)
(* The properties.                                                         *)
(***************************************************************************)
\* C1: _has_resistive_path_to_ground(n) returns true exactly when n is a
\* ground node or a ground node is reachable from n through resistive_adj
\* alone; capacitive edges never count.
C1_PathIffResistiveReach ==
  ret.op = "has_resistive_path_to_ground" =>
    (ret.val <=> ResistivelyGrounded(graph, Lower(ret.node)))

\* C1 happens: the query answered false for a node that reaches ground along
\* a path of a resistor and then a capacitor.
C1_Witness ==
  /\ ret.op = "has_resistive_path_to_ground"
  /\ ret.val = FALSE
  /\ Get(graph.resistive_adj, Lower(ret.node)) \ {Lower(ret.node)} # {}
  /\ Reach(AnyEdge(graph), {Lower(ret.node)}) \cap ground_nodes # {}

\* C2: a flattened run reports exactly one DcFloatingNode finding, severity
\* "error", for every non-ground node of all_nodes with capacitive degree > 0
\* and no resistive-only path to ground, and none for any other node.
C2_DcFloatingExactly ==
  FlattenedRan =>
    /\ \A n \in NodeNames :
         Count(DC_FLOATING_NODE, n) =
           IF /\ n \in graph.all_nodes
              /\ n \notin ground_nodes
              /\ Cardinality(Get(graph.capacitive_adj, n)) > 0
              /\ ~ ResistivelyGrounded(graph, n)
           THEN 1 ELSE 0
    /\ \A f \in OfKind(DC_FLOATING_NODE) : f.severity = "error"

\* C2 happens: a flattened run reported one capacitively coupled node and
\* passed over another that has a resistor to a ground node.
C2_Witness ==
  /\ FlattenedRan
  /\ \E n \in graph.all_nodes : Count(DC_FLOATING_NODE, n) = 1
  /\ \E n \in graph.all_nodes \ ground_nodes :
       /\ Cardinality(Get(graph.capacitive_adj, n)) > 0
       /\ Get(graph.resistive_adj, n) \cap ground_nodes # {}
       /\ Count(DC_FLOATING_NODE, n) = 0

\* The resistive connected components of all_nodes.
ResistiveComponents == { Reach(graph.resistive_adj, {n}) : n \in graph.all_nodes }

Reportable(c) ==
  /\ c \cap ground_nodes = {}
  /\ \E n \in c : Cardinality(Get(graph.resistive_adj, n)) > 0

\* C3: detection reports exactly one IsolatedComponent finding, severity
\* "critical", for each resistive connected component of all_nodes that holds
\* no ground node and holds a node of positive resistive degree, and none for
\* any other component.
C3_IsolatedExactly ==
  (StandardRan \/ FlattenedRan) =>
    /\ \A c \in ResistiveComponents :
         Count(ISOLATED_COMPONENT, component_label(c)) = IF Reportable(c) THEN 1 ELSE 0
    /\ \A f \in OfKind(ISOLATED_COMPONENT) :
         /\ f.severity = "critical"
         /\ \E c \in ResistiveComponents : f.node = component_label(c)

\* C3 happens: a run reported one component and passed over a component,
\* without ground, whose nodes have no resistor.
C3_Witness ==
  /\ StandardRan \/ FlattenedRan
  /\ \E c \in ResistiveComponents : Count(ISOLATED_COMPONENT, component_label(c)) = 1
  /\ \E c \in ResistiveComponents :
       /\ c \cap ground_nodes = {}
       /\ ~ Reportable(c)
       /\ Count(ISOLATED_COMPONENT, component_label(c)) = 0

\* C4: detection reports exactly one FloatingNode finding, severity
\* "critical", for every node of all_nodes that is no ground node, no port,
\* and has resistive and capacitive degree 0, and none for any other node.
C4_FloatingNodeExactly ==
  (StandardRan \/ FlattenedRan) =>
    /\ \A n \in NodeNames :
         Count(FLOATING_NODE, n) =
           IF /\ n \in graph.all_nodes
              /\ n \notin ground_nodes
              /\ n \notin graph.port_nodes
              /\ Cardinality(Get(graph.resistive_adj, n)) = 0
              /\ Cardinality(Get(graph.capacitive_adj, n)) = 0
           THEN 1 ELSE 0
    /\ \A f \in OfKind(FLOATING_NODE) : f.severity = "critical"

\* C4 happens: a run reported a floating node and passed over a port of
\* all_nodes that has no connection either.
C4_Witness ==
  /\ StandardRan \/ FlattenedRan
  /\ \E n \in graph.all_nodes : Count(FLOATING_NODE, n) = 1
  /\ \E n \in (graph.all_nodes \cap graph.port_nodes) \ ground_nodes :
       /\ Get(graph.resistive_adj, n) = {} /\ Get(graph.capacitive_adj, n) = {}
       /\ Count(FLOATING_NODE, n) = 0

\* The registry holds every element the template held: no name was used twice.
TemplateKnown == n_added = Len(graph.elements)

\* Element e joins nodes a and b.
Joins(e, a, b) ==
  \/ Lower(e.node1) = a /\ Lower(e.node2) = b
  \/ Lower(e.node1) = b /\ Lower(e.node2) = a

\* Some element of one of the kinds joins a and b.
Joined(kinds, a, b) ==
  \E e \in Range(graph.elements) : e.element_type \in kinds /\ Joins(e, a, b)

\* A resistor or a capacitor of either kind is attached to node n.
Attached(n) ==
  \E e \in Range(graph.elements) :
    /\ e.element_type \in {RESISTOR, CAPACITOR, COUPLING_CAPACITOR}
    /\ Lower(e.node1) = n \/ Lower(e.node2) = n

\* C5: on a graph built from a template, a standard run reports exactly one
\* FloatingPort finding, severity "warning", for every declared port that is
\* no ground node and has no resistor and no capacitor attached, and none for
\* a connected port or a ground port.
C5_FloatingPortExactly ==
  (StandardRan /\ TemplateKnown) =>
    /\ \A n \in NodeNames :
         Count(FLOATING_PORT, n) =
           IF n \in graph.port_nodes /\ n \notin ground_nodes /\ ~ Attached(n)
           THEN 1 ELSE 0
    /\ \A f \in OfKind(FLOATING_PORT) : f.severity = "warning"

\* C6: a standard run reports exactly one CapacitorOnly finding, severity
\* "warning", for every node of all_nodes that is no ground node, no port, has
\* resistive degree 0 and capacitive degree > 0, and none for any other node.
C6_CapacitorOnlyExactly ==
  StandardRan =>
    /\ \A n \in NodeNames :
         Count(CAPACITOR_ONLY, n) =
           IF /\ n \in graph.all_nodes
              /\ n \notin ground_nodes
              /\ n \notin graph.port_nodes
              /\ Cardinality(Get(graph.resistive_adj, n)) = 0
              /\ Cardinality(Get(graph.capacitive_adj, n)) > 0
           THEN 1 ELSE 0
    /\ \A f \in OfKind(CAPACITOR_ONLY) : f.severity = "warning"

\* C6 happens: a standard run reported a capacitor-only node and passed over
\* a port that has capacitors and no resistor.
C6_Witness ==
  /\ StandardRan
  /\ \E n \in graph.all_nodes : Count(CAPACITOR_ONLY, n) = 1
  /\ \E n \in graph.port_nodes \ ground_nodes :
       /\ Get(graph.resistive_adj, n) = {}
       /\ Get(graph.capacitive_adj, n) # {}
       /\ Count(CAPACITOR_ONLY, n) = 0

\* C7: after build_from_subcircuit, b is in resistive_adj[a] exactly when a
\* Resistor of the template joins a and b, and b is in capacitive_adj[a]
\* exactly when a Capacitor or a CouplingCapacitor joins a and b.
C7_AdjacencyFromElements ==
  TemplateKnown =>
    \A a \in NodeNames, b \in NodeNames :
      /\ b \in Get(graph.resistive_adj, a) <=> Joined({RESISTOR}, a, b)
      /\ b \in Get(graph.capacitive_adj, a) <=> Joined({CAPACITOR, COUPLING_CAPACITOR}, a, b)

\* C8: get_all_connected_components partitions all_nodes: the sets returned
\* are non-empty and pairwise disjoint, their union is all_nodes, and two
\* nodes joined by capacitors, with no resistive path between them, lie in
\* different sets.
C8_ComponentsPartition ==
  ret.op = "get_all_connected_components" =>
    LET cs == ret.val
    IN  /\ \A i \in 1..Len(cs) : cs[i] # {}
        /\ \A i \in 1..Len(cs), j \in 1..Len(cs) : i # j => cs[i] \cap cs[j] = {}
        /\ UNION Range(cs) = graph.all_nodes
        /\ \A a \in graph.all_nodes, b \in graph.all_nodes :
             (b \in Get(graph.capacitive_adj, a) /\ b \notin Reach(graph.resistive_adj, {a}))
               => ~ \E i \in 1..Len(cs) : a \in cs[i] /\ b \in cs[i]

\* C8 happens: the query returned several sets, one of them with two nodes,
\* and a capacitor joins nodes of two different sets.
C8_Witness ==
  /\ ret.op = "get_all_connected_components"
  /\ \E i \in 1..Len(ret.val) : Cardinality(ret.val[i]) > 1
  /\ \E i \in 1..Len(ret.val), j \in 1..Len(ret.val) :
       /\ i # j
       /\ \E a \in ret.val[i], b \in ret.val[j] : b \in Get(graph.capacitive_adj, a)

\* Every node that is a key or a neighbor in one of the adjacency relations.
AdjNodes(g) ==
  (DOMAIN g.resistive_adj) \cup (DOMAIN g.capacitive_adj)
    \cup UNION { g.resistive_adj[k] : k \in DOMAIN g.resistive_adj }
    \cup UNION { g.capacitive_adj[k] : k \in DOMAIN g.capacitive_adj }

\* C9: both adjacency relations are symmetric in every state of the build,
\* after each element added as well as at its end.
C9_AdjacencySymmetric ==
  \A a \in AdjNodes(graph), b \in AdjNodes(graph) :
    /\ b \in Get(graph.resistive_adj, a) <=> a \in Get(graph.resistive_adj, b)
    /\ b \in Get(graph.capacitive_adj, a) <=> a \in Get(graph.capacitive_adj, b)

\* C9 happens: during a build the graph holds a resistor and a capacitor,
\* each between two different nodes.
C9_Witness ==
  /\ pc = "build"
  /\ \E a \in AdjNodes(graph) : Get(graph.resistive_adj, a) \ {a} # {}
  /\ \E a \in AdjNodes(graph) : Get(graph.capacitive_adj, a) \ {a} # {}

\* A name without an upper-case letter.
IsLowerCase(s) == \A i \in 1..Len(s) : s[i] \notin DOMAIN ToLower

\* The node identities a graph keeps in its sets and adjacency relations.
StoredNodes(g) == g.all_nodes \cup g.port_nodes \cup AdjNodes(g)

\* The node names the elements of the registry carry.
RegistryNodes(g) == UNION { {e.node1, e.node2} : e \in Range(g.elements) }

\* No method of the detector or query of the graph has run on the graph yet.
BuildOnly == pc \in {"new", "build"}

\* C10 as stated: two templates that differ only in letter case give
\* identical graphs, the element registry included, and every node identity
\* stored in the graph is lower-case.
C10_IdenticalGraphs ==
  BuildOnly =>
    /\ graph = twin
    /\ \A n \in StoredNodes(graph) \cup RegistryNodes(graph) : IsLowerCase(n)

\* C10 as amended: the two graphs have the same all_nodes, port_nodes,
\* resistive_adj and capacitive_adj, and registries with the same names in the
\* same order whose elements agree in kind and, once lower-cased, in node
\* names; every node identity in those sets and relations is lower-case.
C10_IdenticalUpToRegistrySpelling ==
  BuildOnly =>
    /\ graph.all_nodes = twin.all_nodes
    /\ graph.port_nodes = twin.port_nodes
    /\ graph.resistive_adj = twin.resistive_adj
    /\ graph.capacitive_adj = twin.capacitive_adj
    /\ Len(graph.elements) = Len(twin.elements)
    /\ \A i \in 1..Len(graph.elements) :
         /\ graph.elements[i].name = twin.elements[i].name
         /\ graph.elements[i].element_type = twin.elements[i].element_type
         /\ Lower(graph.elements[i].node1) = Lower(twin.elements[i].node1)
         /\ Lower(graph.elements[i].node2) = Lower(twin.elements[i].node2)
    /\ \A n \in StoredNodes(graph) \cup StoredNodes(twin) : IsLowerCase(n)

\* C10 happens: a template that spells a port and the nodes of a resistor
\* and of a capacitor with upper-case letters has been built.
C10_Witness ==
  /\ pc = "build"
  /\ graph.port_nodes # {}
  /\ \E e \in Range(graph.elements) : ~ IsLowerCase(e.node1) /\ ~ IsLowerCase(e.node2)
  /\ graph.elements # twin.elements
  /\ \E a \in AdjNodes(graph) : Get(graph.resistive_adj, a) # {}
  /\ \E a \in AdjNodes(graph) : Get(graph.capacitive_adj, a) # {}

\* The sets of nodes whose label, as an isolated component, is the given text.
Labelled(label) == { c \in SUBSET graph.all_nodes : c # {} /\ component_label(c) = label }

NodeKinds == {FLOATING_NODE, FLOATING_PORT, CAPACITOR_ONLY, DC_FLOATING_NODE}

\* C11: no finding of either run mode names a ground node: 0, gnd, vss and
\* ground are never the node of a FloatingNode, FloatingPort, CapacitorOnly or
\* DcFloatingNode finding and never a member of a reported IsolatedComponent,
\* also when nothing is attached to them.
C11_GroundNeverReported ==
  (StandardRan \/ FlattenedRan) =>
    \A i \in 1..Len(issues) :
      /\ issues[i].open_type \in NodeKinds => issues[i].node \notin ground_nodes
      /\ issues[i].open_type = ISOLATED_COMPONENT =>
           /\ Labelled(issues[i].node) # {}
           /\ \A c \in Labelled(issues[i].node) : c \cap ground_nodes = {}

\* C11 happens: a run that reported a floating port passed over a ground
\* port to which no element is attached.
C11_Witness ==
  /\ StandardRan \/ FlattenedRan
  /\ OfKind(FLOATING_PORT) # {}
  /\ \E n \in graph.port_nodes \cap ground_nodes :
       /\ Get(graph.resistive_adj, n) = {} /\ Get(graph.capacitive_adj, n) = {}
       /\ ~ Attached(n)

\* C12: every run of detection on the same detector and graph returns, in
\* order and content, the list the caller kept from an earlier run in the
\* same mode; nothing of an earlier run is carried over or repeated.
C12_RerunsReturnSameList ==
  (pc = "run" /\ kept.op = ret.op) => issues = kept.issues

\* C12 happens: a list with several findings was kept and a run in the same
\* mode has returned since.
C12_Witness ==
  /\ pc = "run"
  /\ kept.op = ret.op
  /\ Len(kept.issues) > 1

\* C13: a detection run never mutates the graph: after detect_all or
\* detect_all_flattened, all_nodes, port_nodes, the element registry and both
\* adjacency mappings, their sets of keys included, are what they were before
\* the run (ground_nodes is the same set in every state).
C13_DetectionLeavesGraph ==
  [][(pc' = "run" /\ ret'.op \in DetectionOps) => graph' = graph]_vars


(***************************************************************************)
(* The flattened graph.                                                    *)
(***************************************************************************)

\* The graph a netlist was flattened into is under analysis.
FlatGraph == netlist # EmptyNetlist /\ pc \in {"flat", "run"}

Instances == { netlist.instances[i] : i \in 1..Len(netlist.instances) }

TemplateOf(instance) == named(netlist, instance.subcircuit_type)[1]

\* The nodes of an instance's template that are neither port nor ground.
Internals(instance) ==
  { Lower(m) : m \in TemplateOf(instance).internal_nodes } \ ground_nodes

\* The identity of an internal node of an instance.
Embedded(instance, m) == Lower(instance.instance_name) \o <<"_">> \o m

Neighbours(n) == Get(graph.resistive_adj, n) \cup Get(graph.capacitive_adj, n)

\* What an instance can reach outside itself: ground and its connections.
External(instance) ==
  ground_nodes \cup { Lower(instance.connections[k]) : k \in 1..Len(instance.connections) }

\* C14: in a flattened graph every internal (non-port, non-ground) node of
\* an instance is a node whose identity embeds the instance name; its
\* neighbours are internal nodes of the same instance, connections of that
\* instance or ground; internal nodes of distinct instances are distinct
\* nodes and no edge joins them.
C14_InternalNodesPerInstance ==
  FlatGraph =>
    \A x \in Instances : \A m \in Internals(x) :
      /\ Embedded(x, m) \in graph.all_nodes
      /\ Neighbours(Embedded(x, m))
           \subseteq External(x) \cup { Embedded(x, k) : k \in Internals(x) }
      /\ \A y \in Instances \ {x} : \A k \in Internals(y) :
           /\ Embedded(y, k) # Embedded(x, m)
           /\ Embedded(y, k) \notin Neighbours(Embedded(x, m))

\* Two instances of one template each have their own copy of an internal
\* node, and both copies hang on the same external node.
C14_Witness ==
  /\ FlatGraph
  /\ \E x \in Instances : \E y \in Instances \ {x} : \E m \in Internals(x) \cap Internals(y) :
       /\ {Embedded(x, m), Embedded(y, m)} \subseteq graph.all_nodes
       /\ (Neighbours(Embedded(x, m)) \cap Neighbours(Embedded(y, m))) \ ground_nodes # {}

\* The element of the flat graph an instance's template element became.
Emitted(instance, e) ==
  { f \in Range(graph.elements) : f.name = instance.instance_name \o <<"_">> \o e.name }

\* The indices at which a template node is a port of its template.
PortIndex(instance, node) ==
  { k \in 1..Len(TemplateOf(instance).ports) :
      Lower(TemplateOf(instance).ports[k]) = Lower(node) }

\* The adjacency an element of the flat graph is recorded in.
AdjOf(f) == IF f.element_type = RESISTOR THEN graph.resistive_adj ELSE graph.capacitive_adj

BadInstances ==
  { i \in 1..Len(netlist.instances) :
      \/ \A t \in Range(netlist.subcircuits) : t.name # netlist.instances[i].subcircuit_type
      \/ \E t \in Range(netlist.subcircuits) :
           /\ t.name = netlist.instances[i].subcircuit_type
           /\ Len(t.ports) # Len(netlist.instances[i].connections) }

FlattenTried == ret.op = "build_from_netlist" \/ FlatGraph

\* C17: flattening a netlist with an instantiation of an unknown template,
\* or one whose connection count is not its template's port count, aborts:
\* the error names the first such instantiation and its template, and no
\* detection runs, so there are no findings; a netlist without one is
\* flattened without error.
C17_BadInstanceAborts ==
  FlattenTried =>
    /\ (pc = "error") = (BadInstances # {})
    /\ pc = "error" =>
         /\ issues = <<>>
         /\ ~ ENABLED DetectAll
         /\ ~ ENABLED DetectAllFlattened
         /\ \E i \in BadInstances :
              /\ \A j \in BadInstances : i <= j
              /\ ret.error.instance = netlist.instances[i].instance_name
              /\ ret.error.subcircuit = netlist.instances[i].subcircuit_type

\* A build aborted at the second instantiation, after the first one was
\* flattened: one whose connections do not match the ports, and one of an
\* unknown template.
C17_Witness ==
  /\ pc = "error"
  /\ ret.error.kind = "port_count_mismatch"
  /\ BadInstances = {2}
  /\ graph.all_nodes # {}

\* C18: an empty netlist is flattened into a graph without nodes, and both
\* detect_all and detect_all_flattened return the empty list on it.
C18_EmptyNetlistNoFindings ==
  (netlist = EmptyNetlist /\ ret.op \in {"build_from_netlist"} \cup DetectionOps) =>
    /\ pc # "error"
    /\ graph.all_nodes = {}
    /\ pc = "run" => issues = <<>>

C18_Witness ==
  /\ netlist = EmptyNetlist
  /\ pc = "run"
  /\ ret.op = "detect_all_flattened"
  /\ issues = <<>>


(***************************************************************************)
(* Lookups of single nodes.                                                *)
(***************************************************************************)

Lookups ==
  {"get_node_degree", "get_resistive_neighbors", "has_ground_connection",
   "has_resistive_path_to_ground"}

\* The node last looked up has no edge of the kind the lookup reads: it is
\* no node of the graph at all, or one nothing resistive (for a degree
\* with capacitors, nothing at all) is recorded on.
LookedUpBare ==
  /\ ret.op \in Lookups
  /\ Get(graph.resistive_adj, Lower(ret.node)) = {}
  /\ (ret.op = "get_node_degree" /\ ret.include_capacitors) =>
       Get(graph.capacitive_adj, Lower(ret.node)) = {}

\* C19: a lookup of a node without recorded edges, or of a node the graph
\* does not have at all, does not raise: get_node_degree returns 0, the
\* resistive neighbour set is empty, and has_ground_connection and
\* _has_resistive_path_to_ground are false unless the node is a ground name.
C19_LookupOfBareNode ==
  LookedUpBare =>
    /\ ret.op = "get_node_degree" => ret.raised = "none" /\ ret.val = 0
    /\ ret.op = "get_resistive_neighbors" => ret.val = {}
    /\ ret.op \in {"has_ground_connection", "has_resistive_path_to_ground"} =>
         ret.val = (Lower(ret.node) \in ground_nodes)

\* The degree, capacitors included, of a name that is no node of a graph
\* that has nodes.
C19_Witness ==
  /\ ret.op = "get_node_degree"
  /\ ret.include_capacitors
  /\ Lower(ret.node) \notin graph.all_nodes \cup graph.port_nodes \cup ground_nodes
  /\ graph.all_nodes # {}
  /\ ret.val = 0


(***************************************************************************)
(* The elements a finding names.                                           *)
(***************************************************************************)

\* The names of the registered elements with an endpoint among the nodes.
Incident(nodes) ==
  { e.name : e \in { r \in Range(graph.elements) :
                       Lower(r.node1) \in nodes \/ Lower(r.node2) \in nodes } }

NoRepeats(seq) == \A i, j \in 1..Len(seq) : seq[i] = seq[j] => i = j

\* C20: after a detection run, a CapacitorOnly or DcFloatingNode finding on
\* node n lists exactly the names of the registered elements with n as an
\* endpoint, and an IsolatedComponent finding exactly the names of the
\* registered elements with an endpoint in the component, each name once.
C20_AffectedElementsAreIncident ==
  (StandardRan \/ FlattenedRan) =>
    \A i \in 1..Len(issues) :
      /\ issues[i].open_type \in {CAPACITOR_ONLY, DC_FLOATING_NODE} =>
           /\ Range(issues[i].affected_elements) = Incident({issues[i].node})
           /\ NoRepeats(issues[i].affected_elements)
      /\ issues[i].open_type = ISOLATED_COMPONENT =>
           /\ NoRepeats(issues[i].affected_elements)
           /\ \A c \in Labelled(issues[i].node) :
                Range(issues[i].affected_elements) = Incident(c)

\* A flattened run found an island of two nodes and a DC-floating node in
\* it, spelled in upper case by the netlist, each with two elements.
C20_Witness ==
  /\ FlattenedRan
  /\ \E x \in OfKind(ISOLATED_COMPONENT) : Len(x.affected_elements) = 2
  /\ \E x \in OfKind(DC_FLOATING_NODE) :
       /\ Len(x.affected_elements) = 2
       /\ \E e \in Range(graph.elements) : e.node1 # x.node /\ Lower(e.node1) = x.node


(***************************************************************************)
(* The order and the kinds of the findings of a run.                       *)
(***************************************************************************)

\* The place of a kind of finding in the list of a run.
Rank(kind) ==
  IF kind = FLOATING_NODE THEN 1
  ELSE IF kind = ISOLATED_COMPONENT THEN 2
  ELSE IF kind = FLOATING_PORT THEN 3
  ELSE 4

\* C21: the findings of a run are ordered by rule: FloatingNode, then
\* IsolatedComponent, then FloatingPort, then CapacitorOnly (standard run)
\* or DcFloatingNode (flattened run).
C21_FindingsOrderedByRule ==
  (StandardRan \/ FlattenedRan) =>
    \A i, j \in 1..Len(issues) :
      i < j => Rank(issues[i].open_type) <= Rank(issues[j].open_type)

\* A standard run reported an island and, after it, a port nothing is
\* connected to.
C21_Witness ==
  /\ StandardRan
  /\ \E i, j \in 1..Len(issues) :
       /\ i < j
       /\ issues[i].open_type = ISOLATED_COMPONENT
       /\ issues[j].open_type = FLOATING_PORT

\* C22: a flattened run produces no CapacitorOnly finding and, on a graph
\* without port nodes, no FloatingPort finding; a standard run produces no
\* DcFloatingNode finding.
C22_ModesKeepTheirRules ==
  /\ FlattenedRan =>
       /\ OfKind(CAPACITOR_ONLY) = {}
       /\ graph.port_nodes = {} => OfKind(FLOATING_PORT) = {}
  /\ StandardRan => OfKind(DC_FLOATING_NODE) = {}

\* A flattened run on a graph without ports found a DC-floating node that
\* has capacitors and no resistor: the node a standard run calls
\* capacitor-only.
C22_Witness ==
  /\ FlattenedRan
  /\ graph.port_nodes = {}
  /\ \E f \in OfKind(DC_FLOATING_NODE) :
       /\ Get(graph.resistive_adj, f.node) = {}
       /\ Get(graph.capacitive_adj, f.node) # {}

\* The findings of the three node rules of a standard run, by position.
NodeFindings ==
  { i \in 1..Len(issues) :
      issues[i].open_type \in {FLOATING_NODE, FLOATING_PORT, CAPACITOR_ONLY} }

\* C23: in a standard run no node is named by two findings among
\* FloatingNode, FloatingPort and CapacitorOnly, and no node named by one of
\* them is a member of a component reported as IsolatedComponent.
C23_NoDoubleReport ==
  StandardRan =>
    /\ \A i, j \in NodeFindings : issues[i].node = issues[j].node => i = j
    /\ \A i \in NodeFindings : \A f \in OfKind(ISOLATED_COMPONENT) :
         \A c \in Labelled(f.node) : issues[i].node \notin c

\* A standard run passed over a component without ground whose only node
\* has a capacitor and no resistor, and reported that node as
\* capacitor-only.
C23_Witness ==
  /\ StandardRan
  /\ OfKind(ISOLATED_COMPONENT) = {}
  /\ \E f \in OfKind(CAPACITOR_ONLY) :
       /\ Reach(graph.resistive_adj, {f.node}) = {f.node}
       /\ f.node \notin ground_nodes

\* C24: every DcFloatingNode finding names a node whose resistive degree is
\* 0, and its description gives the node's capacitive-connection count and
\* "r_degree=0".
C24_DcFloatingHasNoResistor ==
  FlattenedRan =>
    \A f \in OfKind(DC_FLOATING_NODE) :
      /\ Get(graph.resistive_adj, f.node) = {}
      /\ f.description =
           <<"Node '">> \o f.node \o <<"' has ">>
             \o IntStr(Cardinality(Get(graph.capacitive_adj, f.node)))
             \o <<" capacitive connections but no DC path to ground (r_degree=">>
             \o <<"0">> \o <<")">>

\* C25: while a graph is built and after any detection run, every key and
\* every neighbour of resistive_adj and capacitive_adj is in all_nodes.
C25_AdjacencyNodesAreNodes ==
  \A adj \in {graph.resistive_adj, graph.capacitive_adj} :
    /\ DOMAIN adj \subseteq graph.all_nodes
    /\ \A k \in DOMAIN adj : adj[k] \subseteq graph.all_nodes


(***************************************************************************)
(* The two searches for ground.                                            *)
(***************************************************************************)

\* The nodes of the components a run reported as isolated.
ReportedIsolated ==
  UNION { UNION Labelled(f.node) : f \in OfKind(ISOLATED_COMPONENT) }

\* C27: has_ground_connection and _has_resistive_path_to_ground give the
\* same answer on every node of every graph, and after a run a non-ground
\* node with a resistor is in a reported IsolatedComponent exactly when
\* that answer is false.
C27_GroundSearchesAgree ==
  /\ ret.op = "has_ground_connection" =>
       ret.val = has_resistive_path_to_ground(graph, ret.node)
  /\ ret.op = "has_resistive_path_to_ground" =>
       ret.val = has_ground_connection(graph, ret.node).val
  /\ StandardRan =>
       \A n \in graph.all_nodes \ ground_nodes :
         Get(graph.resistive_adj, n) # {} =>
           /\ has_ground_connection(graph, n).val = has_resistive_path_to_ground(graph, n)
           /\ (n \in ReportedIsolated) = (~ has_ground_connection(graph, n).val)

\* has_ground_connection found ground from a node that is not next to it.
C27_Witness ==
  /\ ret.op = "has_ground_connection"
  /\ ret.val
  /\ Lower(ret.node) \notin ground_nodes
  /\ Get(graph.resistive_adj, Lower(ret.node)) \cap ground_nodes = {}


(***************************************************************************)
(* The registry and the edges.                                             *)
(***************************************************************************)

\* Every edge has an element of the registry of its kind between its ends.
EdgesWitnessed ==
  \A a \in NodeNames, b \in NodeNames :
    /\ b \in Get(graph.resistive_adj, a) => Joined({RESISTOR}, a, b)
    /\ b \in Get(graph.capacitive_adj, a) => Joined({CAPACITOR, COUPLING_CAPACITOR}, a, b)

\* C28 as stated: after the build of any template, one with duplicate
\* element names included, every edge of resistive_adj and capacitive_adj
\* has an element of the registry of the matching kind between its ends.
C28_EdgesWitnessedByRegistry == Built => EdgesWitnessed

\* C28 as amended: the same, for templates whose element names are
\* pairwise distinct (every element taken is still in the registry).
C28_EdgesWitnessedWhenNamesDistinct ==
  (Built /\ n_added = Len(graph.elements)) => EdgesWitnessed

\* Two elements of different names were taken, a resistor and a capacitor,
\* and each adjacency has an edge.
C28_Witness ==
  /\ Built
  /\ n_added = 2
  /\ Len(graph.elements) = 2
  /\ \E a \in NodeNames : Get(graph.resistive_adj, a) # {}
  /\ \E a \in NodeNames : Get(graph.capacitive_adj, a) # {}

\* C29: every FloatingNode finding names a node that no element of the
\* registry has as an endpoint, and its list of affected elements is empty.
C29_FloatingNodeUntouched ==
  (StandardRan \/ FlattenedRan) =>
    \A f \in OfKind(FLOATING_NODE) :
      /\ f.affected_elements = <<>>
      /\ \A e \in Range(graph.elements) : Lower(e.node1) # f.node /\ Lower(e.node2) # f.node


(***************************************************************************)
(* The parser.                                                             *)
(***************************************************************************)

\* The positions of the .subckt headers and of the .ends lines of the input,
\* continuation lines joined.
Headers ==
  { i \in 1..Len(parser.joined_lines) : is_subckt_start(parser.joined_lines[i]) }

Ends ==
  { i \in 1..Len(parser.joined_lines) : is_subckt_end(parser.joined_lines[i]) }

\* The input ends while a subcircuit is open: no .ends follows its last header.
OpenAtEnd == \E i \in Headers : \A j \in Ends : j < i

LastHeader == CHOOSE i \in Headers : \A j \in Headers : j <= i

\* The first tokens of the lines a..b of the input.
FirstTokens(a, b) ==
  [k \in 1..(IF b < a THEN 0 ELSE b - a + 1) |-> parser.joined_lines[a + k - 1][1]]

\* The subcircuits map the call returned.
Returned == IF ret.op = "parse_lines" THEN ret.val ELSE ret.val.subcircuits

\* C26: when the input ends while a subcircuit is open, the parser issues
\* exactly one warning (and none otherwise), and the map it returns holds
\* that subcircuit with its ports and every element since its .subckt line;
\* reaching the end of the input never raises.
C26_OpenSubcircuitClosedAtEnd ==
  /\ pc = "parsed" =>
       /\ parser.warnings = IF OpenAtEnd THEN 1 ELSE 0
       /\ OpenAtEnd =>
            \E t \in Range(Returned) :
              /\ t.name = parser.joined_lines[LastHeader][2]
              /\ t.ports = SubSeq(parser.joined_lines[LastHeader], 3,
                                  Len(parser.joined_lines[LastHeader]))
              /\ Names(t.elements) = FirstTokens(LastHeader + 1, Len(parser.joined_lines))
  /\ pc = "parse_error" => parser.line_num <= Len(parser.joined_lines)

\* An input without .ends after its last header was parsed: one warning,
\* and the subcircuit is returned with its two elements.
C26_Witness ==
  /\ pc = "parsed"
  /\ OpenAtEnd
  /\ parser.warnings = 1
  /\ \E t \in Range(Returned) :
       t.name = parser.joined_lines[LastHeader][2] /\ Len(t.elements) = 2

\* The line that closes the subcircuit a header opens: the next header or
\* .ends, or the end of the input.
Close(i) ==
  IF \E j \in Headers \cup Ends : j > i
  THEN CHOOSE j \in Headers \cup Ends : j > i /\ \A k \in Headers \cup Ends : k > i => j <= k
  ELSE Len(parser.joined_lines) + 1

\* The .ends lines before which no subcircuit is open.
BareEnds ==
  { j \in Ends : ~ \E i \in Headers : i < j /\ \A k \in Ends : ~ (i < k /\ k < j) }

\* C30: when parse_lines or parse_lines_complete returns, no subcircuit is
\* open and every .subckt header of the input has an entry in the returned
\* map with the elements that followed it up to its close; the parser
\* never gets past a .ends line with no subcircuit open, it raises
\* SpiceParserError there.
C30_EveryHeaderReturned ==
  /\ pc = "parsed" =>
       /\ parser.curren_subckt = NoName
       /\ \A i \in Headers :
            \E t \in Range(Returned) :
              /\ t.name = parser.joined_lines[i][2]
              /\ Names(t.elements) = FirstTokens(i + 1, Close(i) - 1)
  /\ \A j \in BareEnds :
       pc \in {"parse", "parsed", "parse_error"} =>
         /\ parser.line_num <= j
         /\ pc # "parsed"
         /\ (pc = "parse_error" /\ parser.line_num = j) => parser.raised = "SpiceParserError"

====
